---- MODULE Spec2Model ----
(***************************************************************************)
(* Hydrogen orbital viewer ("Multiple Orbitals.cpp"): the frame loop of    *)
(* main (event drain, clock read, throttled regeneration, render) and the  *)
(* rejection sampler generate_orbital_points with the density functions    *)
(* it calls.                                                               *)
(*                                                                         *)
(* Units.  Time is counted in quarter seconds, so that the 0.5f of the     *)
(* throttle is 2 and the -100.0f sentinel is -400.  Amplitudes are fixed   *)
(* point numbers scaled by 1000, densities and acceptance thresholds are   *)
(* scaled by 1000000.  The sampling domain is a grid: r in Bohr radii,     *)
(* theta and phi in multiples of PI/2, where sin and cos are exact.        *)
(***************************************************************************)
EXTENDS Integers, Sequences, FiniteSets

VARIABLES
  pc,                    \* position in main, or in a stand-alone sampler call
  window_open,           \* window.isOpen()
  event,                 \* sf::Event event, as last filled by pollEvent
  polled,                \* events handed out so far in this frame
  current_orbital,       \* int current_orbital (C++ index, 0-based)
  points,                \* std::vector<sf::Vector3f> points
  angle,                 \* float angle, in steps of ROTATION_SPEED
  time,                  \* float time, the last clock reading
  last_generation_time,  \* float last_generation_time
  g,                     \* the frame of generate_orbital_points: its arguments and its vector
  calls_in_frame,        \* history: calls of generate_orbital_points made in this frame
  selected,              \* history: selections accepted in this frame's drain (how many, the last)
  points_src,            \* history: the call whose result points holds
  mark,                  \* history: one earlier tick, remembered for comparison
  attempts               \* history: candidates drawn by a stand-alone sampler call

vars == << pc, window_open, event, polled, current_orbital, points, angle, time,
           last_generation_time, g, calls_in_frame, selected, points_src,
           mark, attempts >>

\* ------------------------------------------------------------------ bounds

\* Number of points of a point set (the program uses 10000).
NUM_POINTS == 1
\* Last clock reading, in quarter seconds.
MaxClock == 3
\* Steps of ROTATION_SPEED after which adding it no longer changes the float angle.
AngleSteps == 2
\* Events pollEvent hands out within one frame.
MaxEvents == 2
\* Saturation of the attempt counter of a stand-alone sampler call.
MaxAttempts == 3

\* --------------------------------------------------------------- constants

\* 0.5f seconds, in quarter seconds.
REGEN_INTERVAL == 2
\* sf::Keyboard::Num1 (A..Z are 0..25, Num0 is 26).
Num1 == 27
Num4 == Num1 + 3
\* float max_prob = 1.0f.
max_prob == 1

\* Variant: the timestamp starts at the clock's origin instead of the sentinel.
InitialTimeAtClockStart == time
\* float last_generation_time = -100.0f at construction.
InitialGenerationTime == -400

\* Variant: a selection leaves the timestamp alone.
SwitchKeepsTime == last_generation_time
\* last_generation_time = -100.0f on an accepted selection.
SwitchGenerationTime == -400

\* ----------------------------------------------------------------- orbitals

Orbital(n, l, m, name) == [n |-> n, l |-> l, m |-> m, scale |-> 2, name |-> name]

\* The catalogue; C++ index i is orbitals[i + 1] here.
orbitals ==
  << Orbital(1, 0, 0, "1s"), Orbital(2, 1, 1, "2px"),
     Orbital(2, 1, -1, "2py"), Orbital(2, 1, 0, "2pz") >>

OrbitalsSize == Len(orbitals)

\* ------------------------------------------------------------ quantum functions

\* a / b rounded toward zero.
Trunc(a, b) == IF a >= 0 THEN a \div b ELSE -((-a) \div b)

\* cos and sin at k * PI/2.
Cos(k) == CASE k % 4 = 0 -> 1 [] k % 4 = 2 -> -1 [] OTHER -> 0
Sin(k) == CASE k % 4 = 1 -> 1 [] k % 4 = 3 -> -1 [] OTHER -> 0

\* 1000 * exp(-k/2), truncated.
ExpHalf(k) ==
  LET table == <<1000, 606, 367, 223, 135, 82, 49, 30, 18, 11, 6, 4, 2, 1, 0>>
  IN IF k + 1 <= Len(table) THEN table[k + 1] ELSE 0

\* 1000 * sqrt(3 / (4 PI)) and 1000 * 0.5 * sqrt(1 / PI), truncated.
Y1 == 488
Y0 == 282

\* Variant: the 2py case is missing.
real_spherical_harmonic_without_2py(orbital, theta, phi) ==
  LET l == orbital.l
      m == orbital.m
  IN IF l = 0 /\ m = 0 THEN Y0
     ELSE IF l = 1 /\ m = 0 THEN Y1 * Cos(theta)
     ELSE IF l = 1 /\ m = 1 THEN -Y1 * Sin(theta) * Cos(phi)
     ELSE 0

real_spherical_harmonic(orbital, theta, phi) ==
  LET l == orbital.l
      m == orbital.m
  IN IF l = 0 /\ m = 0 THEN Y0
     ELSE IF l = 1 /\ m = 0 THEN Y1 * Cos(theta)
     ELSE IF l = 1 /\ m = 1 THEN -Y1 * Sin(theta) * Cos(phi)
     ELSE IF l = 1 /\ m = -1 THEN -Y1 * Sin(theta) * Sin(phi)
     ELSE 0

\* 1 / (2 sqrt 2) is 353/1000; (1 - r/2) is (2 - r)/2.
radial_function(n, r) ==
  IF n = 1 THEN 2 * ExpHalf(2 * r)
  ELSE IF n = 2 THEN Trunc(353 * (2 - r) * ExpHalf(r), 2000)
  ELSE 0

\* 1000 * (1 + 0.1 sin(0.1 t)) at t quarter seconds, with sin x taken as x (x <= 0.125
\* at the clock readings followed); the factor stays within 900 .. 1100.
Vibration(t) == 1000 + (5 * t) \div 2

probability_density(orbital, r, theta, phi, t) ==
  LET R == radial_function(orbital.n, r)
      Y == real_spherical_harmonic(orbital, theta, phi)
      psi == Trunc(R * Y, 1000)
  IN (psi * psi * Vibration(t)) \div 1000

\* ------------------------------------------------------------------ sampler

\* The grid of the sampling domain: r_dist, theta_dist, phi_dist, prob_dist.
RGrid == {1}
ThetaGrid == {0, 1}
PhiGrid == {0, 1}
UGrid == {0, 10000, 999999}

Cartesian(r, theta, phi) ==
  << r * Sin(theta) * Cos(phi), r * Sin(theta) * Sin(phi), r * Cos(theta) >>

\* Variant: <= in place of <.
AcceptedInclusive(u, prob) == u <= prob \div max_prob
\* if (prob_dist(gen) < prob / max_prob)
Accepted(u, prob) == u < prob \div max_prob

\* while (points.size() < NUM_POINTS)
LoopContinues(frame) == Len(frame.points) < NUM_POINTS

\* The frame of a call: std::vector<sf::Vector3f> points is empty at entry.
Call(orbital, t) == [orbital |-> orbital, time |-> t, points |-> << >>]

\* No call in progress.
NoCall == Call(Orbital(0, 0, 0, "none"), 0)

\* One pass through the body of the rejection loop.
SampleIteration(frame, r, theta, phi, u) ==
  LET prob == probability_density(frame.orbital, r, theta, phi, frame.time)
  IN IF Accepted(u, prob)
     THEN [frame EXCEPT !.points = Append(@, Cartesian(r, theta, phi))]
     ELSE frame

Draws(frame) ==
  { SampleIteration(frame, r, theta, phi, u) :
      r \in RGrid, theta \in ThetaGrid, phi \in PhiGrid, u \in UGrid }

\* ---------------------------------------------------------------- main: state

NoEvent == [type |-> "None", code |-> -1]
ClosedEvent == [type |-> "Closed", code |-> -1]
OtherEvent == [type |-> "Other", code |-> -1]
KeyEvent(code) == [type |-> "KeyPressed", code |-> code]

\* Key codes pollEvent may report: Num0, Num1 .. Num4, Num5.
KeyCodes == (Num1 - 1) .. (Num4 + 1)

\* No selection accepted yet in this frame.
NoneSelected == [n |-> 0, last |-> -1]

\* mark: a tick (its clock reading, whether it regenerated) and what happened since:
\* sw, a selection was accepted; replaced, points was assigned.
NoMark == [set |-> FALSE, time |-> 0, regen |-> FALSE, sw |-> FALSE, replaced |-> FALSE]

\* No tick is to be remembered at all.
MarkOff == [NoMark EXCEPT !.sw = TRUE]

\* points_src: the call points came from (its orbital, its time, whether a selection
\* of the same frame forced it); set is FALSE while points is the empty initial vector.
NoSource == [set |-> FALSE, orbital |-> NoCall.orbital, time |-> 0, forced |-> FALSE]

\* A remembered tick is of use while a later tick can still be compared with it:
\* until a selection is accepted or the clock is 0.5s past it.
MarkLive(m, now) == m.set /\ ~m.sw /\ now - m.time < REGEN_INTERVAL

\* The tick just completed, at clock reading t: a remembered tick records a
\* replacement of points; when none is remembered, this tick may become it.
MarkChoices(t, regen) ==
  IF mark = MarkOff THEN {mark}
  ELSE IF mark.set THEN {[mark EXCEPT !.replaced = @ \/ regen]}
  ELSE {mark, [set |-> TRUE, time |-> t, regen |-> regen, sw |-> FALSE,
               replaced |-> FALSE]}

InitExceptMark ==
  /\ pc = "loop"
  /\ window_open = TRUE
  /\ event = NoEvent
  /\ polled = 0
  /\ current_orbital = 0
  /\ points = << >>
  /\ angle = 0
  /\ time = 0
  /\ last_generation_time = InitialGenerationTime
  /\ g = NoCall
  /\ calls_in_frame = 0
  /\ selected = NoneSelected
  /\ points_src = NoSource
  /\ attempts = 0

Init == InitExceptMark /\ mark = NoMark

\* --------------------------------------------------------------- main: events

\* event.key.code >= sf::Keyboard::Num1 && event.key.code <= sf::Keyboard::Num4
KeyInRange(code) == code >= Num1 /\ code <= Num4

\* index < orbitals.size(): the int is converted to size_t, so a negative index
\* compares as a huge value and is not below the size.
IndexInCatalogue(index) == index >= 0 /\ index < OrbitalsSize

SelectAccepted(code) == KeyInRange(code) /\ IndexInCatalogue(code - Num1)

\* Variant: the reset sits outside the two ifs and runs for every key.
TimeAfterAnyKey(accepted, index) == SwitchGenerationTime
\* Variant: the reset is skipped altogether.
TimeAfterKeyUnchanged(accepted, index) == last_generation_time
\* Variant: the reset is skipped when the orbital selected is the current one.
TimeAfterKeyIfChanged(accepted, index) ==
  IF accepted /\ index # current_orbital THEN SwitchGenerationTime
  ELSE last_generation_time
\* last_generation_time after a key press.
TimeAfterKey(accepted, index) ==
  IF accepted THEN SwitchGenerationTime ELSE last_generation_time

\* current_orbital after a key press.
OrbitalAfterKey(accepted, index) ==
  IF accepted THEN index ELSE current_orbital

\* while (window.isOpen()), entering the body.
LoopEnter ==
  /\ pc = "loop"
  /\ window_open
  /\ pc' = "poll"
  /\ event' = NoEvent
  /\ polled' = 0
  /\ selected' = NoneSelected
  /\ calls_in_frame' = 0
  /\ mark' = IF MarkLive(mark, time) \/ mark = MarkOff THEN mark ELSE NoMark
  /\ UNCHANGED << window_open, current_orbital, points, angle, time,
                  last_generation_time, g, points_src, attempts >>

\* while (window.isOpen()), leaving; return 0.
LoopExit ==
  /\ pc = "loop"
  /\ ~window_open
  /\ pc' = "exit"
  /\ UNCHANGED << window_open, event, polled, current_orbital, points, angle, time,
                  last_generation_time, g, calls_in_frame, selected,
                  points_src, mark, attempts >>

\* pollEvent hands out sf::Event::Closed: window.close().
PollClosed ==
  /\ pc = "poll"
  /\ polled < MaxEvents
  /\ event' = ClosedEvent
  /\ polled' = polled + 1
  /\ window_open' = FALSE
  /\ UNCHANGED << pc, current_orbital, points, angle, time, last_generation_time, g,
                  calls_in_frame, selected, points_src, mark, attempts >>

\* pollEvent hands out sf::Event::KeyPressed.
PollKeyPressed ==
  /\ pc = "poll"
  /\ polled < MaxEvents
  /\ \E code \in KeyCodes :
       LET index == code - Num1
           accepted == SelectAccepted(code)
       IN /\ event' = KeyEvent(code)
          /\ current_orbital' = OrbitalAfterKey(accepted, index)
          /\ last_generation_time' = TimeAfterKey(accepted, index)
          /\ selected' = IF accepted THEN [n |-> selected.n + 1, last |-> index]
                          ELSE selected
          /\ mark' = IF accepted /\ mark.set THEN [mark EXCEPT !.sw = TRUE] ELSE mark
  /\ polled' = polled + 1
  /\ UNCHANGED << pc, window_open, points, angle, time, g, calls_in_frame,
                  points_src, attempts >>

\* pollEvent hands out an event of another type.
PollOther ==
  /\ pc = "poll"
  /\ polled < MaxEvents
  /\ event' = OtherEvent
  /\ polled' = polled + 1
  /\ UNCHANGED << pc, window_open, current_orbital, points, angle, time,
                  last_generation_time, g, calls_in_frame, selected,
                  points_src, mark, attempts >>

\* pollEvent returns false: the queue is drained. event is not read again before
\* the next frame declares it anew.
PollEmpty ==
  /\ pc = "poll"
  /\ pc' = "tick"
  /\ event' = NoEvent
  /\ polled' = 0
  /\ UNCHANGED << window_open, current_orbital, points, angle, time,
                  last_generation_time, g, calls_in_frame, selected,
                  points_src, mark, attempts >>

\* ----------------------------------------------------------------- main: tick

\* Variant: >= in place of >.
RegenDueInclusive(now, last) == now - last >= REGEN_INTERVAL
\* Variant: the interval is left out of the comparison.
RegenDueNoInterval(now, last) == now - last > 0
\* angle += ROTATION_SPEED, which stops changing a float that has grown large.
Turned(a) == IF a < AngleSteps THEN a + 1 ELSE a

\* if (time - last_generation_time > 0.5f)
RegenDue(now, last) == now - last > REGEN_INTERVAL

\* Variant: the timestamp is not updated after a regeneration.
GenerationStampKept(now) == last_generation_time
\* last_generation_time = time;
GenerationStamp(now) == now

\* The clock is read, the camera turns, the throttle lets the sampler be called.
TickRegenerate ==
  /\ pc = "tick"
  /\ \E now \in time .. MaxClock :
       /\ RegenDue(now, last_generation_time)
       /\ time' = now
       /\ g' = Call(orbitals[current_orbital + 1], now)
  /\ angle' = Turned(angle)
  /\ pc' = "sample"
  /\ calls_in_frame' = calls_in_frame + 1
  /\ UNCHANGED << window_open, event, polled, current_orbital, points,
                  last_generation_time, selected, points_src, mark, attempts >>

\* The clock is read, the camera turns, the throttle keeps the point set.
TickReuse ==
  /\ pc = "tick"
  /\ \E now \in time .. MaxClock :
       /\ ~RegenDue(now, last_generation_time)
       /\ time' = now
       /\ mark' \in MarkChoices(now, FALSE)
  /\ angle' = Turned(angle)
  /\ pc' = "render"
  /\ UNCHANGED << window_open, event, polled, current_orbital, points,
                  last_generation_time, g, calls_in_frame, selected,
                  points_src, attempts >>

\* One candidate of the rejection loop of the call main made.
SampleDraw ==
  /\ pc = "sample"
  /\ LoopContinues(g)
  /\ g' \in Draws(g)
  /\ UNCHANGED << pc, window_open, event, polled, current_orbital, points, angle,
                  time, last_generation_time, calls_in_frame, selected,
                  points_src, mark, attempts >>

\* A candidate that is accepted.
SampleAccept == SampleDraw /\ g' # g

\* return points; points = ...; last_generation_time = time;
SampleReturn ==
  /\ pc = "sample"
  /\ ~LoopContinues(g)
  /\ points' = g.points
  /\ last_generation_time' = GenerationStamp(time)
  /\ points_src' = [set |-> TRUE, orbital |-> g.orbital, time |-> g.time,
                    forced |-> selected.n > 0]
  /\ mark' \in MarkChoices(time, TRUE)
  /\ g' = NoCall
  /\ pc' = "render"
  /\ UNCHANGED << window_open, event, polled, current_orbital, angle, time,
                  calls_in_frame, selected, attempts >>

\* window.clear() .. window.display(): points drawn with the current orbital's
\* color and scale.
Render ==
  /\ pc = "render"
  /\ pc' = "loop"
  /\ UNCHANGED << window_open, event, polled, current_orbital, points, angle, time,
                  last_generation_time, g, calls_in_frame, selected,
                  points_src, mark, attempts >>

Next ==
  \/ LoopEnter
  \/ LoopExit
  \/ PollClosed
  \/ PollKeyPressed
  \/ PollOther
  \/ PollEmpty
  \/ TickRegenerate
  \/ TickReuse
  \/ SampleDraw
  \/ SampleReturn
  \/ Render

Spec == Init /\ [][Next]_vars

\* The random source eventually yields a candidate that is accepted, when one exists;
\* a loop whose condition is false is left.
\* Ticks are not remembered here: the history mark plays no part in termination.
FairInit == InitExceptMark /\ mark = MarkOff

FairSpec ==
  /\ FairInit
  /\ [][Next]_vars
  /\ WF_vars(SampleAccept) /\ WF_vars(SampleReturn)

\* ------------------------------------------------- stand-alone sampler calls

\* Quantum numbers a caller may pass: nothing validates them.
QuantumN == 1 .. 3
QuantumL == 0 .. 2
QuantumM == -2 .. 2

AnyOrbital == { Orbital(n, l, m, "any") : n \in QuantumN, l \in QuantumL, m \in QuantumM }

CallInit ==
  /\ pc = "call"
  /\ g \in { Call(o, t) : o \in AnyOrbital, t \in 0 .. MaxClock }
  /\ window_open = TRUE
  /\ event = NoEvent
  /\ polled = 0
  /\ current_orbital = 0
  /\ points = << >>
  /\ angle = 0
  /\ time = 0
  /\ last_generation_time = InitialGenerationTime
  /\ calls_in_frame = 0
  /\ selected = NoneSelected
  /\ points_src = NoSource
  /\ mark = NoMark
  /\ attempts = 0

CallDraw ==
  /\ pc = "call"
  /\ LoopContinues(g)
  /\ g' \in Draws(g)
  /\ attempts' = IF attempts < MaxAttempts THEN attempts + 1 ELSE attempts
  /\ UNCHANGED << pc, window_open, event, polled, current_orbital, points, angle,
                  time, last_generation_time, calls_in_frame, selected,
                  points_src, mark >>

CallReturn ==
  /\ pc = "call"
  /\ ~LoopContinues(g)
  /\ points' = g.points
  /\ pc' = "returned"
  /\ UNCHANGED << window_open, event, polled, current_orbital, angle, time,
                  last_generation_time, g, calls_in_frame, selected,
                  points_src, mark, attempts >>

CallNext ==
  \/ CallDraw
  \/ CallReturn

SamplerSpec == CallInit /\ [][CallNext]_vars

\* ------------------------------------------------------------------- claims

\* orbitals[current_orbital]
CurrentOrbital == orbitals[current_orbital + 1]

\* The (n, l, m) for which both amplitude functions have a case.
Implemented(o) ==
  /\ o.n \in {1, 2}
  /\ << o.l, o.m >> \in { << 0, 0 >>, << 1, 0 >>, << 1, 1 >>, << 1, -1 >> }

\* A step of main that completes a regeneration.
Returns == pc = "sample" /\ pc' = "render"

\* C1: the tick of a frame in which a selection was accepted calls the sampler with
\* the orbital now selected, whatever the clock reads and however recent the last
\* regeneration is, and the call's result replaces points.
C1_SwitchForcesRegeneration ==
  [][ /\ (pc = "tick" /\ selected.n > 0) =>
           /\ pc' = "sample"
           /\ g' = Call(orbitals[selected.last + 1], time')
      /\ (Returns /\ selected.n > 0) =>
           /\ points' = g.points
           /\ points_src'.orbital = orbitals[selected.last + 1] ]_vars

\* C1 witness: a forced call in progress less than 0.5s after the last regeneration.
C1_Witness ==
  /\ pc = "sample"
  /\ selected.n > 0
  /\ points_src.set
  /\ g.time - points_src.time < REGEN_INTERVAL
  /\ g.points # << >>

\* C2 as stated: any two ticks t1 < t2 less than 0.5s apart with no selection between
\* them leave the same point set, whichever tick t1 is.
C2_AnyTwoTicksReuse ==
  (pc = "render" /\ mark.set /\ mark.time < time /\ time - mark.time < REGEN_INTERVAL
     /\ ~mark.sw) => ~mark.replaced

\* C2 amended: when the tick at t1 is one that regenerated, every tick t2 > t1 less
\* than 0.5s later with no selection between leaves the same point set; and a tick
\* more than 0.5s after the regeneration of the point set held calls the sampler,
\* whose result replaces the set.
C2_ReuseAfterRegeneration ==
  /\ [](( pc = "render" /\ mark.set /\ mark.regen /\ mark.time < time
          /\ time - mark.time < REGEN_INTERVAL /\ ~mark.sw) => ~mark.replaced)
  /\ [][ /\ (pc = "tick" /\ points_src.set /\ time' - points_src.time > REGEN_INTERVAL)
              => pc' = "sample"
         /\ Returns => (points' = g.points /\ points_src'.time = time) ]_vars

\* C2 witness: a tick less than 0.5s after a remembered regenerating tick, no
\* selection between, has completed.
C2_Witness ==
  /\ pc = "render"
  /\ mark.set /\ mark.regen /\ ~mark.sw
  /\ mark.time < time
  /\ time - mark.time < REGEN_INTERVAL
  /\ calls_in_frame = 0

\* C3: whenever a frame is rendered, and whenever points holds a sampler result,
\* points has exactly NUM_POINTS elements.
C3_ExactlyNumPoints ==
  /\ pc = "render" => Len(points) = NUM_POINTS
  /\ points_src.set => Len(points) = NUM_POINTS

\* C3 witness: the first frame is rendered, after the regeneration of its tick.
C3_Witness ==
  /\ pc = "render"
  /\ angle = 1
  /\ calls_in_frame = 1
  /\ Len(points) = NUM_POINTS

\* C4: under fairness of acceptance, every call main makes returns and the frame
\* is rendered.
C4_SamplerTerminates == (pc = "sample") ~> (pc = "render")

\* C4 witness: a call for the 2py orbital has returned and its frame is rendered.
C4_Witness ==
  /\ pc = "render"
  /\ calls_in_frame = 1
  /\ points_src.orbital = orbitals[3]
  /\ Len(points) = NUM_POINTS

\* C5: a call for an orbital without a case in radial_function or in
\* real_spherical_harmonic sees density 0 at every candidate, accepts nothing and
\* does not return.
C5_ZeroDensityNeverReturns ==
  (pc \in {"call", "returned"} /\ ~Implemented(g.orbital)) =>
     /\ pc = "call"
     /\ g.points = << >>
     /\ \A r \in RGrid, theta \in ThetaGrid, phi \in PhiGrid :
          probability_density(g.orbital, r, theta, phi, g.time) = 0

\* C5 witness: such a call has drawn MaxAttempts candidates.
C5_Witness ==
  /\ pc = "call"
  /\ ~Implemented(g.orbital)
  /\ attempts = MaxAttempts

\* A key press the claim calls out of range.
OutOfRange(e) ==
  /\ e.type = "KeyPressed"
  /\ \/ e.code \notin Num1 .. Num4
     \/ e.code - Num1 \notin 0 .. (OrbitalsSize - 1)

\* C6: a key press outside Num1..Num4 changes none of current_orbital,
\* last_generation_time and points, and current_orbital always indexes the catalogue.
C6_OutOfRangeIgnored ==
  /\ [](current_orbital \in 0 .. (OrbitalsSize - 1))
  /\ [][ (pc = "poll" /\ pc' = "poll" /\ OutOfRange(event')) =>
           UNCHANGED << current_orbital, last_generation_time, points >> ]_vars

\* C6 witness: Num5 has been handled in a frame after the first regeneration.
C6_Witness ==
  /\ pc = "poll"
  /\ event = KeyEvent(Num4 + 1)
  /\ points_src.set

\* C7: a tick calls the sampler exactly when now - last_generation_time > 0.5; then
\* the call is for the current orbital and now, and its return sets points and
\* last_generation_time = now; otherwise points and last_generation_time stay. So a
\* regeneration in a frame without a selection is more than 0.5s after the last one.
C7_TickRegeneratesIffDue ==
  /\ [][ /\ pc = "tick" =>
              /\ (pc' = "sample") <=> (time' - last_generation_time > REGEN_INTERVAL)
              /\ pc' = "sample" => g' = Call(CurrentOrbital, time')
              /\ pc' # "sample" => UNCHANGED << points, last_generation_time >>
         /\ Returns => (points' = g.points /\ last_generation_time' = time) ]_vars
  /\ []((pc = "sample" /\ selected.n = 0 /\ points_src.set)
          => g.time - points_src.time > REGEN_INTERVAL)

\* C7 witness: a tick exactly 0.5s after the last regeneration has kept the set.
C7_Witness ==
  /\ pc = "render"
  /\ points_src.set
  /\ last_generation_time = points_src.time
  /\ time - last_generation_time = REGEN_INTERVAL
  /\ calls_in_frame = 0

\* C8: at every render step points was sampled for the orbital current_orbital
\* designates.
C8_RenderedPointsMatchOrbital ==
  pc = "render" => (points_src.set /\ points_src.orbital = CurrentOrbital)

\* C8 witness: a frame that switched to another orbital is rendered.
C8_Witness ==
  /\ pc = "render"
  /\ selected.n > 0
  /\ current_orbital # 0
  /\ points_src.orbital = CurrentOrbital

\* C9: a regeneration stamps last_generation_time with its tick's time, and after a
\* forced regeneration a tick of a frame without a selection calls the sampler
\* exactly when more than 0.5s have passed since the forced regeneration.
C9_BypassOnlyOnce ==
  [][ /\ Returns => last_generation_time' = time
      /\ (pc = "tick" /\ selected.n = 0 /\ points_src.set /\ points_src.forced) =>
           ((pc' = "sample") <=> (time' - points_src.time > REGEN_INTERVAL)) ]_vars

\* C9 witness: a frame without a selection, after a forced regeneration, is rendered
\* with the forced set kept.
C9_Witness ==
  /\ pc = "render"
  /\ points_src.forced
  /\ selected.n = 0
  /\ calls_in_frame = 0

\* C10: no call is made while events are drained; a call is for the orbital current
\* at the tick; a frame that accepted selections, the current orbital's included,
\* makes exactly one call, for the last orbital selected.
C10_OneCallForLastSelection ==
  /\ pc \in {"poll", "tick"} => calls_in_frame = 0
  /\ pc = "sample" => (calls_in_frame = 1 /\ g.orbital = CurrentOrbital)
  /\ (pc \in {"sample", "render"} /\ selected.n > 0) => calls_in_frame = 1
  /\ (pc = "render" /\ selected.n > 0) =>
        (points_src.forced /\ points_src.orbital = orbitals[selected.last + 1])

\* C10 witness: a frame that accepted two selections is rendered after one call.
C10_Witness ==
  /\ pc = "render"
  /\ selected.n = 2
  /\ calls_in_frame = 1
  /\ points_src.time = time

====
